---- MODULE Spec2Model ----
(***************************************************************************)
(* Photowall: the receiver page's slideshow state machine (receiver.js),   *)
(* the Presentation API polyfill that feeds it (presentation_polyfill.js)  *)
(* and the controller page's copy of the slideshow (the second script of   *)
(* receiver.js).  Two builds of the receiver exist in the repository: the  *)
(* photowall one sends the state from addConnection, the other one         *)
(* (part_000) sends it from connection.onconnect.                          *)
(*                                                                         *)
(* One action of the model is one browser task together with the           *)
(* microtasks (promise reactions) it queues: the event loop runs nothing   *)
(* in between.                                                             *)
(***************************************************************************)
EXTENDS Integers, Sequences, FiniteSets, TLC

VARIABLES
    build,                  \* which receiver script the page runs
    slideshow,              \* receiver.js: var slideshow
    imageSequence,          \* receiver.js: var imageSequence
    nextImageTimeout,       \* receiver.js: var nextImageTimeout (Null = null)
    timers,                 \* the browser's pending setTimeout timers
    display,                \* last child of #slideshow, <<>> when cleared
    preloaded,              \* the image most recently preloaded, <<>> if none
    connections,            \* connectionList.connections
    connectionListResolved, \* polyfill: var connectionListResolved
    onconnectionavailable,  \* connectionList.onconnectionavailable is set
    channel,                \* per connection: messages posted, not yet received
    controllers,            \* per connection: the controller page's state
    last                    \* history: the event the last step handled

vars == <<build, slideshow, imageSequence, nextImageTimeout, timers, display,
          preloaded, connections, connectionListResolved,
          onconnectionavailable, channel, controllers, last>>

----------------------------------------------------------------------------
(* Bounds of the model.                                                    *)

MaxImageId == 3        \* ids handed out: imageSequence never exceeds it
MaxConnections == 2    \* NEW_CONNECTION messages accepted
MaxQueue == 1          \* messages in flight to one controller
MaxTimerId == 3        \* timer ids are 1..MaxTimerId, reused once released

Urls == {"a"}
Builds == {"photowall", "onconnect"}

----------------------------------------------------------------------------
(* constants.js                                                            *)

DEFAULT_SLIDESHOW_DELAY == 5000
DEFAULT_SLIDESHOW_ANIMATION == "fadeIn"

ADD_IMAGE == "addImage"
REMOVE_IMAGE == "removeImage"
CHANGE_DELAY == "changeDelay"
CHANGE_ANIMATION == "changeAnimation"
SlideshowAction == {ADD_IMAGE, REMOVE_IMAGE, CHANGE_DELAY, CHANGE_ANIMATION}

\* Values a controller can pick in its list boxes, and an action string that
\* is not in the enum.
Delays == {DEFAULT_SLIDESHOW_DELAY, 3000}
Animations == {DEFAULT_SLIDESHOW_ANIMATION, "zoomIn"}
UnknownAction == "ping"

Null == 0              \* JavaScript null (falsy; timer ids are >= 1)
NoId == -1             \* an image object without an id property
Undefined == [kind |-> "undefined"]

\* F applied to the value of x (x is evaluated once).
Bind(x, F(_)) == CHOOSE r \in {F(v) : v \in {x}} : TRUE

----------------------------------------------------------------------------
(* The receiver's state is threaded through the handlers as one record w:  *)
(* slideshow, imageSequence, nextImageTimeout, timers, display, preloaded, *)
(* and two counters of the calls made while handling the current event.    *)

TimerIds == 1 .. MaxTimerId

\* setTimeout returns an id that no pending timer has.  Ids name pending
\* timers only, so the id of a timer that fired or was cleared is free again.
FreshTimer(pending) ==
    LET free == TimerIds \ pending
    IN  IF free = {} THEN MaxTimerId + 1
        ELSE CHOOSE t \in free : \A u \in free : t <= u

preloadNextImage(state) == Bind(state, LAMBDA w :
    LET len == Len(w.slideshow.images)
        n0  == w.slideshow.currentImageIndex + 1
        nextImageIndex == IF n0 >= len THEN 0 ELSE n0
    IN  IF len > 1
        THEN [w EXCEPT !.preloaded = <<w.slideshow.images[nextImageIndex + 1]>>,
                       !.preloads = @ + 1]
        ELSE w)

\* Mutant of clearNextImageTimeout: the old timer is left pending.
keepNextImageTimeout(w) == w.timers

\* clearTimeout(nextImageTimeout) when nextImageTimeout is truthy.
clearNextImageTimeout(w) ==
    IF w.nextImageTimeout # Null THEN w.timers \ {w.nextImageTimeout}
    ELSE w.timers

\* Mutant of setNextImageTimeout: no timer is set for the next image.
setNoTimeout(state) == state

\* nextImageTimeout = setTimeout(showNextImage, slideshow.delay)
setNextImageTimeout(state) == Bind(state, LAMBDA w :
    Bind(FreshTimer(w.timers), LAMBDA t :
        [w EXCEPT !.nextImageTimeout = t, !.timers = @ \cup {t}]))

showNextImage(state) == Bind(state, LAMBDA w :
    LET len == Len(w.slideshow.images)
        i0  == w.slideshow.currentImageIndex + 1
        idx == IF i0 >= len THEN 0 ELSE i0
    IN  IF len = 0
        THEN [w EXCEPT !.timers = clearNextImageTimeout(w),
                       !.slideshow.currentImageIndex = idx,
                       !.shows = @ + 1,
                       !.display = <<>>]
        ELSE setNextImageTimeout(preloadNextImage(
               [w EXCEPT !.timers = clearNextImageTimeout(w),
                         !.slideshow.currentImageIndex = idx,
                         !.shows = @ + 1,
                         !.display = <<w.slideshow.images[idx + 1]>>])))

\* Mutant of getImageId: the id is the length of the list.
getImageIdFromLength(w) == Len(w.slideshow.images)

getImageId(w) == w.imageSequence

\* Mutant of addImage: an id the controller sent is kept.
addImageKeepingId(state, image) == Bind(state, LAMBDA w :
    Bind([w EXCEPT !.imageSequence = @ + 1,
                   !.slideshow.images =
                       Append(@, IF image.id # NoId THEN image
                                 ELSE [image EXCEPT !.id = getImageId(w)])],
         LAMBDA w1 :
    Bind(IF w1.slideshow.currentImageIndex + 2 = Len(w1.slideshow.images)
         THEN preloadNextImage(w1) ELSE w1,
         LAMBDA w2 :
    IF Len(w2.slideshow.images) = 1 THEN showNextImage(w2) ELSE w2)))

addImage(state, image) == Bind(state, LAMBDA w :
    Bind([w EXCEPT !.imageSequence = @ + 1,
                   !.slideshow.images =
                       Append(@, [image EXCEPT !.id = getImageId(w)])],
         LAMBDA w1 :
    Bind(IF w1.slideshow.currentImageIndex + 2 = Len(w1.slideshow.images)
         THEN preloadNextImage(w1) ELSE w1,
         LAMBDA w2 :
    IF Len(w2.slideshow.images) = 1 THEN showNextImage(w2) ELSE w2)))

\* Mutant of Splice: the first element goes, whatever the index.
SpliceFirst(s, imageIndex) == Tail(s)

\* Array.prototype.splice(imageIndex, 1), imageIndex counted from 0.
Splice(s, imageIndex) ==
    [k \in 1 .. Len(s) - 1 |-> IF k <= imageIndex THEN s[k] ELSE s[k + 1]]

\* The 0-based indices of the images with this id; images.some() stops at
\* the first of them.
IndicesOf(images, id) == {k \in 0 .. Len(images) - 1 : images[k + 1].id = id}

removeImageReturns(w, id) == IndicesOf(w.slideshow.images, id) # {}

\* Mutant of removeImage: the index is not moved when an image before the
\* current one goes.
removeImageKeepingIndex(state, id) == Bind(state, LAMBDA w :
    LET found == IndicesOf(w.slideshow.images, id)
        imageIndex == CHOOSE k \in found : \A j \in found : k <= j
        current == w.slideshow.currentImageIndex
    IN  IF found = {} THEN w
        ELSE IF imageIndex = current
        THEN showNextImage(
               [w EXCEPT !.slideshow.images = Splice(@, imageIndex),
                         !.slideshow.currentImageIndex = current - 1])
        ELSE [w EXCEPT !.slideshow.images = Splice(@, imageIndex),
                       !.slideshow.currentImageIndex = current])

removeImage(state, id) == Bind(state, LAMBDA w :
    LET found == IndicesOf(w.slideshow.images, id)
        imageIndex == CHOOSE k \in found : \A j \in found : k <= j
        current == IF imageIndex < w.slideshow.currentImageIndex
                   THEN w.slideshow.currentImageIndex - 1
                   ELSE w.slideshow.currentImageIndex
    IN  IF found = {} THEN w
        ELSE IF imageIndex = current
        THEN showNextImage(
               [w EXCEPT !.slideshow.images = Splice(@, imageIndex),
                         !.slideshow.currentImageIndex = current - 1])
        ELSE [w EXCEPT !.slideshow.images = Splice(@, imageIndex),
                       !.slideshow.currentImageIndex = current])

\* Mutant of changeDelay: the index is stepped back and showNextImage is not
\* called.
changeDelayNoShow(w, delay) ==
    [w EXCEPT !.slideshow.delay = delay,
              !.slideshow.currentImageIndex = @ - 1]

changeDelay(w, delay) ==
    showNextImage([w EXCEPT !.slideshow.delay = delay,
                            !.slideshow.currentImageIndex = @ - 1])

changeAnimation(w, animation) ==
    [w EXCEPT !.slideshow.animation = animation]

\* Mutant of onmessage: an action outside the enum restarts the slideshow.
onmessageDefaultShows(w, jsonMessage) ==
    CASE jsonMessage.action = ADD_IMAGE -> addImage(w, jsonMessage.data)
      [] jsonMessage.action = REMOVE_IMAGE -> removeImage(w, jsonMessage.data)
      [] jsonMessage.action = CHANGE_DELAY -> changeDelay(w, jsonMessage.data)
      [] jsonMessage.action = CHANGE_ANIMATION ->
             changeAnimation(w, jsonMessage.data)
      [] OTHER -> showNextImage(w)

\* connection.onmessage, up to the call of broadcastMessage.
onmessage(w, jsonMessage) ==
    CASE jsonMessage.action = ADD_IMAGE -> addImage(w, jsonMessage.data)
      [] jsonMessage.action = REMOVE_IMAGE -> removeImage(w, jsonMessage.data)
      [] jsonMessage.action = CHANGE_DELAY -> changeDelay(w, jsonMessage.data)
      [] jsonMessage.action = CHANGE_ANIMATION ->
             changeAnimation(w, jsonMessage.data)
      [] OTHER -> w

----------------------------------------------------------------------------
(* Messaging.  A connection is referred to by its position in              *)
(* connectionList.connections; m is the record of the polyfill's objects   *)
(* the handlers touch: connections, channel, and the messages posted while *)
(* handling the current event.                                             *)

ConnectionRef(i) == [kind |-> "connection", ref |-> i]

\* new PresentationConnection(), as far as the receiver uses it.
PresentationConnection ==
    [state |-> "connected", onconnect |-> FALSE, onmessage |-> FALSE]

\* JSON.stringify(slideshow) and JSON.parse of it on the controller.
Stringify(s) ==
    <<"images", s.images, "delay", s.delay, "animation", s.animation,
      "currentImageIndex", s.currentImageIndex>>

Parse(text) ==
    [images |-> text[2], delay |-> text[4], animation |-> text[6],
     currentImageIndex |-> text[8]]

\* connection.send(JSON.stringify(message)): messageSource_.postMessage.
\* A page that has disconnected no longer takes messages.
sendMessage(comm, connection, message) == Bind(comm, LAMBDA m :
    [m EXCEPT !.channel[connection.ref] =
                  IF m.open[connection.ref]
                  THEN Append(@, Stringify(message)) ELSE @,
              !.sends = Append(@, <<connection.ref, Stringify(message)>>)])

\* addConnection(connection).  With undefined as its argument the first
\* property access throws a TypeError and nothing is installed.
addConnection(m, connection, s, b) ==
    IF connection = Undefined THEN m
    ELSE IF b = "photowall"
    THEN [sendMessage(m, connection, s)
            EXCEPT !.connections[connection.ref].onmessage = TRUE]
    ELSE [m EXCEPT !.connections[connection.ref].onconnect = TRUE,
                   !.connections[connection.ref].onmessage = TRUE]

\* The reaction of broadcastMessage: one sendMessage per list entry.
RECURSIVE broadcastFrom(_, _, _)
broadcastFrom(comm, k, message) == Bind(comm, LAMBDA m :
    IF k > Len(m.connections) THEN m
    ELSE broadcastFrom(sendMessage(m, ConnectionRef(k), message), k + 1,
                       message))

\* Mutant of broadcastMessage: only the first connection is sent the message.
broadcastToFirst(m, message) ==
    IF Len(m.connections) = 0 THEN m
    ELSE sendMessage(m, ConnectionRef(1), message)

broadcastMessage(m, message) == broadcastFrom(m, 1, message)

\* list.connections.map(addConnection) in the connectionList reaction.
RECURSIVE addConnectionsFrom(_, _, _, _)
addConnectionsFrom(comm, k, s, b) == Bind(comm, LAMBDA m :
    IF k > Len(m.connections) THEN m
    ELSE addConnectionsFrom(addConnection(m, ConnectionRef(k), s, b),
                            k + 1, s, b))

\* connections[connections.length - 1] for whatever value is passed in.
LastOf(value) ==
    IF value.kind = "array" /\ Len(value.refs) > 0
    THEN ConnectionRef(value.refs[Len(value.refs)])
    ELSE Undefined

\* list.onconnectionavailable as the receiver script sets it.
connectionavailable(m, connectionsArg, s, b) ==
    addConnection(m, LastOf(connectionsArg), s, b)

\* Mutant of AvailableArgument: the array of the connections is passed.
AvailableArray(m) ==
    [kind |-> "array", refs |-> [k \in 1 .. Len(m.connections) |-> k]]

\* What the polyfill passes to connectionList.onconnectionavailable.
AvailableArgument(m) == ConnectionRef(Len(m.connections))

\* The polyfill's forEach over the list: every connection that has an
\* onmessage handler gets the event; each handler parses e.data itself.
RECURSIVE dispatchFrom(_, _, _, _)
dispatchFrom(state, conns, k, jsonMessage) == Bind(state, LAMBDA w :
    IF k > Len(conns) THEN w
    ELSE dispatchFrom(IF conns[k].onmessage
                      THEN [onmessage(w, jsonMessage) EXCEPT !.runs = @ + 1]
                      ELSE w,
                      conns, k + 1, jsonMessage))

\* The broadcastMessage reactions queued by the handlers, run in order after
\* the message task.
RECURSIVE broadcastTimes(_, _, _)
broadcastTimes(comm, n, message) == Bind(comm, LAMBDA m :
    IF n = 0 THEN m
    ELSE broadcastTimes(broadcastMessage(m, message), n - 1, message))

----------------------------------------------------------------------------
(* The controller page (second script of receiver.js).                     *)

NullIndex == -1        \* currentImageIndex: null

DefaultControllerSlideshow ==
    [images |-> <<>>, delay |-> DEFAULT_SLIDESHOW_DELAY,
     animation |-> DEFAULT_SLIDESHOW_ANIMATION,
     currentImageIndex |-> NullIndex]

NewController ==
    [slideshow |-> DefaultControllerSlideshow, connected |-> TRUE]

\* Mutant of controllerOnMessage: only the images are taken over.
controllerOnMessageImages(c, detail) ==
    [c EXCEPT !.slideshow = [Parse(detail) EXCEPT !.delay = c.slideshow.delay]]

\* presentation 'message' listener
controllerOnMessage(c, detail) == [c EXCEPT !.slideshow = Parse(detail)]

\* Mutant of controllerOnDisconnect: the copy of the slideshow is kept.
controllerOnDisconnectKeeps(c) == [c EXCEPT !.connected = FALSE]

\* presentation 'disconnect' listener
controllerOnDisconnect(c) ==
    [c EXCEPT !.slideshow = DefaultControllerSlideshow, !.connected = FALSE]

----------------------------------------------------------------------------
(* State machine.                                                          *)

World ==
    [slideshow |-> slideshow, imageSequence |-> imageSequence,
     nextImageTimeout |-> nextImageTimeout, timers |-> timers,
     display |-> display, preloaded |-> preloaded,
     shows |-> 0, preloads |-> 0, runs |-> 0]

Comm ==
    [connections |-> connections, channel |-> channel, sends |-> <<>>,
     open |-> [k \in 1 .. Len(controllers) |-> controllers[k].connected]]

NoEvent ==
    [ev |-> "none", action |-> ""]

SetWorld(w) ==
    /\ slideshow' = w.slideshow
    /\ imageSequence' = w.imageSequence
    /\ nextImageTimeout' = w.nextImageTimeout
    /\ timers' = w.timers
    /\ display' = w.display
    /\ preloaded' = w.preloaded

Init ==
    /\ build \in Builds
    /\ slideshow = [images |-> <<>>, delay |-> DEFAULT_SLIDESHOW_DELAY,
                    animation |-> DEFAULT_SLIDESHOW_ANIMATION,
                    currentImageIndex |-> 0]
    /\ imageSequence = 0
    /\ nextImageTimeout = Null
    /\ timers = {}
    /\ display = <<>>
    /\ preloaded = <<>>
    /\ connections = <<>>
    /\ connectionListResolved = FALSE
    /\ onconnectionavailable = FALSE
    /\ channel = <<>>
    /\ controllers = <<>>
    /\ last = NoEvent

\* window 'message' listener, case NEW_CONNECTION, followed by the
\* connectionList reaction of the receiver script when the promise resolves.
HandleNewConnection ==
    Bind([Comm EXCEPT !.connections = Append(@, PresentationConnection),
                      !.channel = Append(@, <<>>),
                      !.open = Append(@, TRUE)],
         LAMBDA m0 :
             IF ~connectionListResolved
             THEN addConnectionsFrom(m0, 1, slideshow, build)
             ELSE IF onconnectionavailable
             THEN connectionavailable(m0, AvailableArgument(m0), slideshow,
                                      build)
             ELSE m0)

NewConnection ==
    /\ Len(connections) < MaxConnections
    /\ \E m \in {HandleNewConnection} :
           /\ connections' = m.connections
           /\ channel' = m.channel
           /\ last' = [NoEvent EXCEPT !.ev = "NEW_CONNECTION"]
    /\ connectionListResolved' = TRUE
    /\ onconnectionavailable' = TRUE
    /\ controllers' = Append(controllers, NewController)
    /\ UNCHANGED <<build, slideshow, imageSequence, nextImageTimeout, timers,
                   display, preloaded>>

\* The number of connections whose onmessage handler an APP_MESSAGE reaches.
Handlers == Cardinality({k \in 1 .. Len(connections) : connections[k].onmessage})

\* window 'message' listener, case APP_MESSAGE: the receiver's state after
\* the onmessage handlers have run.
HandleAppMessage(jsonMessage) ==
    dispatchFrom(World, connections, 1, jsonMessage)

\* The broadcastMessage reactions that follow, one per handler that ran.
Broadcasts(w) == broadcastTimes(Comm, w.runs, w.slideshow)

AppMessage(jsonMessage) ==
    /\ Len(connections) > 0
    /\ \A k \in 1 .. Len(channel) : Len(channel[k]) + Handlers <= MaxQueue
    /\ jsonMessage.action = ADD_IMAGE =>
           imageSequence + Handlers <= MaxImageId
    /\ \E w \in {HandleAppMessage(jsonMessage)} :
       \E m \in {Broadcasts(w)} :
           /\ SetWorld(w)
           /\ channel' = m.channel
           /\ last' = [NoEvent EXCEPT !.ev = "APP_MESSAGE",
                                      !.action = jsonMessage.action]
    /\ UNCHANGED <<build, connections, connectionListResolved,
                   onconnectionavailable, controllers>>

\* The messages a controller page can send.
SentImages == [url : Urls, id : {NoId, 0}]

Messages ==
    [action : {ADD_IMAGE}, data : SentImages]
    \cup [action : {REMOVE_IMAGE}, data : 0 .. MaxImageId - 1]
    \cup [action : {CHANGE_DELAY}, data : Delays]
    \cup [action : {CHANGE_ANIMATION}, data : Animations]
    \cup [action : {UnknownAction}, data : {0}]

\* A pending timer expires: the browser runs showNextImage.
TimerExpires(t) ==
    /\ t \in timers
    /\ \E w \in {showNextImage([World EXCEPT !.timers = @ \ {t}])} :
           /\ SetWorld(w)
           /\ last' = [NoEvent EXCEPT !.ev = "timeout"]
    /\ UNCHANGED <<build, connections, connectionListResolved,
                   onconnectionavailable, channel, controllers>>

\* The message at the head of a connection's channel reaches its controller.
Deliver(c) ==
    /\ c \in 1 .. Len(channel)
    /\ channel[c] # <<>>
    /\ controllers' = [controllers EXCEPT
                         ![c] = controllerOnMessage(@, Head(channel[c]))]
    /\ channel' = [channel EXCEPT ![c] = Tail(@)]
    /\ last' = [NoEvent EXCEPT !.ev = "message"]
    /\ UNCHANGED <<build, slideshow, imageSequence, nextImageTimeout,
                   timers, display, preloaded, connections,
                   connectionListResolved, onconnectionavailable>>

\* A controller's presentation element reports 'disconnect'; what was in
\* flight to the page is lost.
Disconnect(c) ==
    /\ c \in 1 .. Len(controllers)
    /\ controllers[c].connected
    /\ controllers' = [controllers EXCEPT ![c] = controllerOnDisconnect(@)]
    /\ channel' = [channel EXCEPT ![c] = <<>>]
    /\ last' = [NoEvent EXCEPT !.ev = "disconnect"]
    /\ UNCHANGED <<build, slideshow, imageSequence, nextImageTimeout,
                   timers, display, preloaded, connections,
                   connectionListResolved, onconnectionavailable>>

\* A script of the receiver page calls connection.terminate() on a connection
\* of the list: the state is set and window.close() is called.  When the
\* browser honours window.close() the page takes no further step; when it
\* does not (the window was not opened by a script) the page runs on.
terminate(connection) == [connection EXCEPT !.state = "terminated"]

Terminate(c) ==
    /\ c \in 1 .. Len(connections)
    /\ connections' = [connections EXCEPT ![c] = terminate(@)]
    /\ last' = [NoEvent EXCEPT !.ev = "terminate"]
    /\ UNCHANGED <<build, slideshow, imageSequence, nextImageTimeout,
                   timers, display, preloaded, connectionListResolved,
                   onconnectionavailable, channel, controllers>>

Next ==
    \/ NewConnection
    \/ \E jsonMessage \in Messages : AppMessage(jsonMessage)
    \/ \E t \in TimerIds : TimerExpires(t)
    \/ \E c \in 1 .. MaxConnections : Deliver(c)
    \/ \E c \in 1 .. MaxConnections : Disconnect(c)
    \/ \E c \in 1 .. MaxConnections : Terminate(c)

Spec == Init /\ [][Next]_vars

\* The browser eventually runs a timer that stays pending.
FairSpec == Spec /\ WF_vars(\E t \in TimerIds : TimerExpires(t))

----------------------------------------------------------------------------
(* Properties.  A property of a handler is stated for every message the    *)
(* handler can be given in every reachable state: After(jsonMessage) is    *)
(* the receiver's state when the APP_MESSAGE task has run.                 *)

After(jsonMessage) == HandleAppMessage(jsonMessage)

ChannelsEmpty == \A k \in 1 .. Len(channel) : channel[k] = <<>>

\* The messages the reactions post to connection k.
SentTo(m, k) == SelectSeq(m.sends, LAMBDA e : e[1] = k)

Ids(images) == {images[k].id : k \in 1 .. Len(images)}

\* C1: when an application message has been handled, every connection of the
\* list is sent one message, and it holds the slideshow as the handler left it.
C1_BroadcastAfterMessage ==
    \A jsonMessage \in Messages :
        LET w == After(jsonMessage)
            m == Broadcasts(w)
        IN  w.runs >= 1 =>
                \A k \in 1 .. Len(connections) :
                    /\ Len(SentTo(m, k)) = w.runs
                    /\ \A j \in 1 .. Len(SentTo(m, k)) :
                           Parse(SentTo(m, k)[j][2]) = w.slideshow

C1_Witness ==
    /\ last.ev = "APP_MESSAGE"
    /\ last.action = ADD_IMAGE
    /\ Len(connections) = 2
    /\ \A k \in 1 .. 2 :
           channel[k] # <<>> /\ Parse(Head(channel[k])) = slideshow

\* C2: every connection of the list has the receiver's onmessage handler.
C2_EveryConnectionAdded ==
    \A k \in 1 .. Len(connections) : connections[k].onmessage

\* C3: when a connection has been added, the slideshow state is on its way to
\* the new controller.
C3_StateSentOnConnect ==
    last.ev = "NEW_CONNECTION" => channel[Len(channel)] # <<>>

C5_Loops ==
    (<>[][slideshow'.images = slideshow.images]_vars) =>
        \A i \in 1 .. MaxImageId :
            []<>(Len(slideshow.images) < i
                 \/ display = <<slideshow.images[i]>>)

C5_Witness ==
    /\ last.ev = "timeout"
    /\ Len(slideshow.images) = 3
    /\ slideshow.currentImageIndex = 0
    /\ display = <<slideshow.images[1]>>

\* C6: at most one showNextImage timer is pending, and it is the one whose
\* id nextImageTimeout holds: a timer that was replaced is no longer pending.
C6_OneTimer ==
    /\ Cardinality(timers) <= 1
    /\ timers \subseteq {nextImageTimeout}

C6_Witness ==
    /\ last.ev = "APP_MESSAGE"
    /\ last.action = CHANGE_DELAY
    /\ timers # {}

\* C7: ADD_IMAGE appends one image, the one sent with its id replaced by the
\* imageSequence of before, and adds one to imageSequence; the images that
\* were there stay as they were.
C7_AddImage ==
    \A image \in SentImages :
        LET w == After([action |-> ADD_IMAGE, data |-> image])
        IN  w.runs = 1 =>
                /\ w.slideshow.images =
                       Append(slideshow.images,
                              [url |-> image.url, id |-> imageSequence])
                /\ w.imageSequence = imageSequence + 1

C7_Witness ==
    /\ last.ev = "APP_MESSAGE"
    /\ last.action = ADD_IMAGE
    /\ Len(slideshow.images) = 2
    /\ imageSequence = 3
    /\ slideshow.images[2].id = 2

\* C8: REMOVE_IMAGE(id) takes out the one image with that id and keeps the
\* others in their order; without such an image the slideshow is unchanged.
C8_RemoveImage ==
    \A id \in 0 .. MaxImageId :
        LET w == After([action |-> REMOVE_IMAGE, data |-> id])
            present == \E k \in 1 .. Len(slideshow.images) :
                           slideshow.images[k].id = id
        IN  w.runs = 1 =>
                /\ removeImageReturns(World, id) = present
                /\ present =>
                       /\ Len(w.slideshow.images) = Len(slideshow.images) - 1
                       /\ w.slideshow.images =
                              SelectSeq(slideshow.images,
                                        LAMBDA im : im.id # id)
                /\ ~present => w.slideshow = slideshow

C8_Witness ==
    /\ last.ev = "APP_MESSAGE"
    /\ last.action = REMOVE_IMAGE
    /\ Len(slideshow.images) = 2
    /\ imageSequence = 3
    /\ Ids(slideshow.images) = {0, 2}

\* C9: the images of the slideshow have distinct ids below imageSequence,
\* imageSequence never goes down and no step puts an id below it into the
\* list: an id that was removed does not come back.
C9_IdsNeverReused ==
    /\ [](/\ \A j, k \in 1 .. Len(slideshow.images) :
                 slideshow.images[j].id = slideshow.images[k].id => j = k
          /\ \A k \in 1 .. Len(slideshow.images) :
                 slideshow.images[k].id < imageSequence)
    /\ [][/\ imageSequence' >= imageSequence
          /\ \A id \in Ids(slideshow'.images) \ Ids(slideshow.images) :
                 id >= imageSequence]_vars

C9_Witness ==
    /\ last.ev = "APP_MESSAGE"
    /\ last.action = ADD_IMAGE
    /\ imageSequence = 3
    /\ Ids(slideshow.images) = {2}

\* C10: a message whose action is not one of the four leaves the slideshow,
\* the display and the timer as they are.
C10_UnknownAction ==
    LET w == After([action |-> UnknownAction, data |-> 0])
    IN  w.runs >= 1 =>
            /\ w.slideshow = slideshow
            /\ w.display = display
            /\ w.timers = timers
            /\ w.nextImageTimeout = nextImageTimeout
            /\ w.shows = 0

C10_Witness ==
    /\ last.ev = "APP_MESSAGE"
    /\ last.action = UnknownAction
    /\ Len(slideshow.images) = 2
    /\ timers # {}

\* C11: connectionList.connections is the non-terminated set of connections:
\* no connection of the list has the state 'terminated'.
C11_NoTerminatedInList ==
    \A k \in 1 .. Len(connections) : connections[k].state # "terminated"

\* C12: a 'disconnect' event resets the copy of the controller that
\* disconnects to no images, delay 5000, animation 'fadeIn' and
\* currentImageIndex null, whatever it held, and leaves the receiver's
\* slideshow as it is.
C12_DisconnectResets ==
    [][last'.ev = "disconnect" =>
          /\ \A c \in 1 .. Len(controllers) :
                 (controllers[c].connected /\ ~controllers'[c].connected) =>
                     /\ controllers'[c].slideshow.images = <<>>
                     /\ controllers'[c].slideshow.delay =
                            DEFAULT_SLIDESHOW_DELAY
                     /\ controllers'[c].slideshow.animation =
                            DEFAULT_SLIDESHOW_ANIMATION
                     /\ controllers'[c].slideshow.currentImageIndex =
                            NullIndex
          /\ \E c \in 1 .. Len(controllers) :
                 controllers[c].connected /\ ~controllers'[c].connected
          /\ slideshow' = slideshow
          /\ display' = display]_vars

C12_Witness ==
    /\ last.ev = "disconnect"
    /\ Len(slideshow.images) = 2
    /\ slideshow.delay # DEFAULT_SLIDESHOW_DELAY
    /\ Len(controllers) = 2
    /\ controllers[1].connected
    /\ controllers[1].slideshow.images = slideshow.images
    /\ ~controllers[2].connected
    /\ controllers[2].slideshow = DefaultControllerSlideshow

\* C13: between handlers currentImageIndex is at least 0, below the number of
\* images when there are images, and 0 when there are none.
C13_IndexInRange ==
    /\ slideshow.currentImageIndex >= 0
    /\ Len(slideshow.images) > 0 =>
           slideshow.currentImageIndex < Len(slideshow.images)
    /\ Len(slideshow.images) = 0 => slideshow.currentImageIndex = 0

C13_Witness ==
    /\ last.ev = "APP_MESSAGE"
    /\ last.action = REMOVE_IMAGE
    /\ Len(slideshow.images) = 2
    /\ imageSequence = 3
    /\ slideshow.currentImageIndex = 1

\* C14: between handlers the display is empty exactly when there are no
\* images, and otherwise the image on display is images[currentImageIndex].
C14_DisplayIsCurrent ==
    /\ display = <<>> <=> slideshow.images = <<>>
    /\ slideshow.images # <<>> =>
           /\ slideshow.currentImageIndex \in 0 .. Len(slideshow.images) - 1
           /\ display = <<slideshow.images[slideshow.currentImageIndex + 1]>>

C14_Witness ==
    /\ last.ev = "APP_MESSAGE"
    /\ last.action = REMOVE_IMAGE
    /\ Ids(slideshow.images) = {1, 2}
    /\ slideshow.currentImageIndex = 0
    /\ display = <<slideshow.images[1]>>
    /\ preloaded = <<slideshow.images[2]>>

\* C15: REMOVE_IMAGE for an image of the list that is not the one on display
\* keeps the display, does not call showNextImage and leaves the pending
\* timer alone, wherever the removed image stands relative to the current
\* one.
C15_RemoveOtherKeepsShow ==
    \A id \in Ids(slideshow.images) :
        LET w == After([action |-> REMOVE_IMAGE, data |-> id])
        IN  (w.runs = 1 /\ display # <<>> /\ display[1].id # id) =>
                /\ w.display = display
                /\ w.shows = 0
                /\ w.timers = timers
                /\ w.nextImageTimeout = nextImageTimeout

\* C16: with more than one image, the image preloaded last is the one the
\* next timer expiry shows, images[(currentImageIndex + 1) mod length].
C16_PreloadedIsNext ==
    Len(slideshow.images) > 1 =>
        preloaded =
            <<slideshow.images[((slideshow.currentImageIndex + 1)
                                  % Len(slideshow.images)) + 1]>>

====
